---- MODULE Spec2Model ----
(***************************************************************************)
(* Model of the server handlers of causal-health-kids: uploadDataset,      *)
(* processDataset, createAnalysis and runCausalAnalysis over the three     *)
(* tables datasets, analyses and column_info.                              *)
(*                                                                         *)
(* Every handler is an async function: it runs synchronously up to each    *)
(* awaited store statement, so one action of the model is "the store       *)
(* executes the awaited statement and the handler runs on to its next      *)
(* await".  Requests are served by the workers in Procs and interleave at  *)
(* these awaits only.                                                      *)
(*                                                                         *)
(* Strings that the code parses (file contents, cells, column names) are   *)
(* sequences of one-character strings.  A nullable column is <<>> (null)   *)
(* or <<v>> (the value v).                                                 *)
(***************************************************************************)
EXTENDS Integers, Sequences, FiniteSets, TLC

\* ------------------------------------------------------------------ bounds
MaxDatasets == 1
MaxAnalyses == 1
MaxRequests == 5
MaxTime == 1

Procs == {"w1", "w2"}

\* The worker of the specifications that serve some requests one at a time.
Server == CHOOSE p \in Procs : TRUE

\* ------------------------------------------------------------ small helpers
Null == <<>>
Some(v) == <<v>>

Min(a, b) == IF a < b THEN a ELSE b
Max(a, b) == IF a > b THEN a ELSE b

Range(s) == {s[i] : i \in 1..Len(s)}

\* ----------------------------------------------------------- string helpers
\* String.prototype.trim strips white space and line terminators at both ends.
IsSpace(c) == c \in {" ", "\n", "\t", "\r"}

RECURSIVE TrimStart(_)
TrimStart(s) ==
  IF s = <<>> THEN s
  ELSE IF IsSpace(Head(s)) THEN TrimStart(Tail(s)) ELSE s

RECURSIVE TrimEnd(_)
TrimEnd(s) ==
  IF s = <<>> THEN s
  ELSE IF IsSpace(s[Len(s)]) THEN TrimEnd(SubSeq(s, 1, Len(s) - 1)) ELSE s

Trim(s) == TrimEnd(TrimStart(s))

\* String.prototype.split with a one-character separator: "" splits to [""].
RECURSIVE Split(_, _)
Split(s, sep) ==
  IF \E i \in 1..Len(s) : s[i] = sep
  THEN LET i == CHOOSE k \in 1..Len(s) :
                  s[k] = sep /\ \A j \in 1..(k - 1) : s[j] # sep
       IN  <<SubSeq(s, 1, i - 1)>> \o Split(SubSeq(s, i + 1, Len(s)), sep)
  ELSE <<s>>

\* .replace(/"/g, '')
Unquote(s) == SelectSeq(s, LAMBDA c : c # "\"")

\* cell => cell.trim().replace(/"/g, '')
CleanCell(cell) == Unquote(Trim(cell))

\* String.prototype.toLowerCase over the letters the model's files use.
LowerChar(c) ==
  CASE c = "T" -> "t"
    [] c = "F" -> "f"
    [] c = "Y" -> "y"
    [] c = "N" -> "n"
    [] OTHER -> c

ToLowerCase(s) == [i \in 1..Len(s) |-> LowerChar(s[i])]

IsDigit(c) == c \in {"0", "1", "2", "3", "4", "5", "6", "7", "8", "9"}

\* !isNaN(parseFloat(v)) && isFinite(parseFloat(v)): parseFloat reads the
\* longest numeric prefix, so the value is a number as soon as the string
\* starts with [+-]?digit or [+-]?.digit; what follows is ignored.  (The
\* literal "Infinity" and overflowing literals need more characters than the
\* model's cells hold.)
StartsUnsigned(v) ==
  \/ Len(v) >= 1 /\ IsDigit(v[1])
  \/ Len(v) >= 2 /\ v[1] = "." /\ IsDigit(v[2])

ParsesFinite(v) ==
  \/ StartsUnsigned(v)
  \/ Len(v) >= 2 /\ v[1] \in {"+", "-"} /\ StartsUnsigned(Tail(v))

BooleanWords ==
  { <<"t", "r", "u", "e">>, <<"f", "a", "l", "s", "e">>, <<"1">>, <<"0">>,
    <<"y", "e", "s">>, <<"n", "o">> }

\* ------------------------------------------- uploadDataset: coarse shape
\* UploadLines with the blank lines kept.
UploadLinesUnfiltered(content) == Split(content, "\n")

\* fileContent.split('\n').filter(line => line.trim())
UploadLines(content) ==
  SelectSeq(Split(content, "\n"), LAMBDA line : Trim(line) # <<>>)

\* lines[0] ? lines[0].split(',') : []   and   headers.length
UploadColumnsCount(content) ==
  LET lines == UploadLines(content)
  IN  IF Len(lines) > 0 /\ lines[1] # <<>> THEN Len(Split(lines[1], ",")) ELSE 0

\* Math.max(0, lines.length - 1)
UploadRowsCount(content) == Max(0, Len(UploadLines(content)) - 1)

\* ------------------------------------------ processDataset: file profiling
\* fileContent.trim().split('\n')
ProcessLines(content) == Split(Trim(content), "\n")

\* lines[0].split(',').map(h => h.trim().replace(/"/g, ''))
Headers(lines) ==
  LET fields == Split(lines[1], ",")
  IN  [i \in 1..Len(fields) |-> CleanCell(fields[i])]

\* Math.max(0, lines.length - 1)
ProcessRowsCount(lines) == Max(0, Len(lines) - 1)

\* lines.slice(1, Math.min(6, lines.length))
DataLines(lines) == SubSeq(lines, 2, Min(6, Len(lines)))

\* line => line.split(',').map(cell => cell.trim().replace(/"/g, ''))
ParseRow(line) ==
  LET cells == Split(line, ",")
  IN  [i \in 1..Len(cells) |-> CleanCell(cells[i])]

\* sampleRows stays null unless there is a data line
SampleRows(lines) ==
  LET dataLines == DataLines(lines)
  IN  IF Len(dataLines) > 0
      THEN Some([i \in 1..Len(dataLines) |-> ParseRow(dataLines[i])])
      ELSE Null

\* values[index] ? values[index].trim().replace(/"/g, '') : ''   (index from 1)
CellAt(line, index) ==
  LET values == Split(line, ",")
  IN  IF index <= Len(values) /\ values[index] # <<>>
      THEN CleanCell(values[index]) ELSE <<>>

ColumnValues(lines, index) ==
  SelectSeq([i \in 1..Len(DataLines(lines)) |-> CellAt(DataLines(lines)[i], index)],
            LAMBDA v : v # <<>>)

AllNumeric(columnValues) ==
  \A i \in 1..Len(columnValues) : ParsesFinite(columnValues[i])

AllBoolean(columnValues) ==
  \A i \in 1..Len(columnValues) : ToLowerCase(columnValues[i]) \in BooleanWords

\* FewUnique without the requirement that a value repeats.
FewUniqueOrAll(columnValues) ==
  LET uniqueValues == Range(columnValues)
  IN  /\ Cardinality(uniqueValues) <= 10
      /\ Cardinality(uniqueValues) <= Len(columnValues)

\* uniqueValues.length <= 10 && uniqueValues.length < columnValues.length
FewUnique(columnValues) ==
  LET uniqueValues == Range(columnValues)
  IN  /\ Cardinality(uniqueValues) <= 10
      /\ Cardinality(uniqueValues) < Len(columnValues)

\* The three checks run one after the other on the same variables: a later
\* check overwrites dataType but never resets a flag an earlier one has set.
Classify(columnValues) ==
  LET init == [data_type |-> "text", is_potential_target |-> FALSE,
               is_potential_treatment |-> FALSE]
      afterNumeric ==
        IF AllNumeric(columnValues)
        THEN [init EXCEPT !.data_type = "numeric", !.is_potential_target = TRUE]
        ELSE init
      afterBoolean ==
        IF AllBoolean(columnValues)
        THEN [afterNumeric EXCEPT !.data_type = "boolean",
                                  !.is_potential_treatment = TRUE]
        ELSE afterNumeric
      afterCategorical ==
        IF FewUnique(columnValues) /\ afterBoolean.data_type = "text"
        THEN [afterBoolean EXCEPT !.data_type = "categorical",
                                  !.is_potential_treatment = TRUE]
        ELSE afterBoolean
  IN  IF Len(columnValues) > 0 THEN afterCategorical ELSE init

\* Math.floor(Math.random() * Math.max(1, rowsCount * 0.1))
NullCounts(rowsCount) == {k \in 0..rowsCount : 10 * k < Max(10, rowsCount)}

\* Math.min(rowsCount, Math.max(1, Math.floor(Math.random() * rowsCount * 0.8)))
UniqueCounts(rowsCount) ==
  {Min(rowsCount, Max(1, k)) : k \in {j \in 0..rowsCount : j = 0 \/ 10 * j < 8 * rowsCount}}

\* One entry of columnInfos; the two counts are the draws of Math.random.
ColumnInfoOf(lines, index, nullCount, uniqueCount) ==
  LET columnValues == ColumnValues(lines, index)
      class == Classify(columnValues)
  IN  [column_name |-> Headers(lines)[index],
       data_type |-> class.data_type,
       null_count |-> nullCount,
       unique_count |-> uniqueCount,
       sample_values |-> IF Len(columnValues) > 0
                         THEN Some(SubSeq(columnValues, 1, Min(3, Len(columnValues))))
                         ELSE Null,
       is_potential_target |-> class.is_potential_target,
       is_potential_treatment |-> class.is_potential_treatment]

\* What the file branch of processDataset leaves in its local variables.
\* file is Null when fs.existsSync(dataset.file_path) is false.
NoProfile ==
  [columnsCount |-> 0, rowsCount |-> 0, sampleRows |-> Null, columnInfos |-> <<>>]

Profiles(file) ==
  IF file = Null THEN {NoProfile}
  ELSE LET lines == ProcessLines(file[1])
           n == Len(Headers(lines))
           rows == ProcessRowsCount(lines)
       IN  { [columnsCount |-> n,
              rowsCount |-> rows,
              sampleRows |-> SampleRows(lines),
              columnInfos |-> [i \in 1..n |-> ColumnInfoOf(lines, i, nulls[i], uniques[i])]]
             : nulls \in [1..n -> NullCounts(rows)],
               uniques \in [1..n -> UniqueCounts(rows)] }

\* ------------------------------------------------------------------- state
VARIABLES
  datasets,      \* datasetsTable: the rows in id order, datasets[i].id = i
  analyses,      \* analysesTable: the rows in id order
  columnInfo,    \* columnInfoTable: the rows in id order
  files,         \* the uploads directory: file path -> content
  now,           \* the clock read by Date.now(), new Date() and defaultNow()
  pc,            \* per worker: the await its request is suspended at
  local,         \* per worker: the local variables of its handler
  response,      \* what the last handler step sent back: a request's outcome,
                 \* or nothing when the step left its request suspended
  requests       \* the number of requests received so far

vars == <<datasets, analyses, columnInfo, files, now, pc, local, response, requests>>

\* Requests the model sends.
FileContents ==
  { <<"a", ",", "b", "\n", "1", ",", "x">> }
FileNames == {"f.csv"}
UploadInputs ==
  { [name |-> "d", description |-> Null, file_data |-> c, file_name |-> f]
      : c \in FileContents, f \in FileNames }
CreateInputs ==
  { [dataset_id |-> d, name |-> "n", target_variable |-> "y",
     treatment_variables |-> <<"t1", "t2">>, control_variables |-> <<>>,
     method |-> "doubleml"]
      : d \in 1..MaxDatasets }

\* Error messages of the handlers.
ErrAnalysisNotFound == "Analysis with id not found"
ErrAlreadyRunning == "Analysis is already running"
ErrDatasetNotReady == "Dataset not found or not ready for analysis"
ErrDatasetNotFound == "Dataset with id not found"
ErrNotProcessable == "Dataset is not in a processable state"

\* A handler's local variables; they are gone when it returns.
NoLocal ==
  [op |-> "none", id |-> 0, analysis |-> Null, dataset |-> Null,
   profile |-> NoProfile, input |-> Null, error |-> ""]

\* A response: the request it answers (worker, handler, id, and the status
\* the handler's first select read, "" when it read no row) and the outcome.
NoResponse ==
  [proc |-> "", op |-> "none", id |-> 0, read |-> "",
   status |-> "none", error |-> "", value |-> Null]
Resolved(p, op, id, read, row) ==
  [proc |-> p, op |-> op, id |-> id, read |-> read,
   status |-> "ok", error |-> "", value |-> Some(row)]
Rejected(p, op, id, read, msg) ==
  [proc |-> p, op |-> op, id |-> id, read |-> read,
   status |-> "error", error |-> msg, value |-> Null]

\* .status of the row a select returned, "" when it returned none
StatusRead(found) == IF Len(found) = 0 THEN "" ELSE found[1].status

Init ==
  /\ datasets = <<>>
  /\ analyses = <<>>
  /\ columnInfo = <<>>
  /\ files = <<>>
  /\ now = 0
  /\ pc = [p \in Procs |-> "idle"]
  /\ local = [p \in Procs |-> NoLocal]
  /\ response = NoResponse
  /\ requests = 0

\* db.select().from(table).where(eq(table.id, id)): zero or one row
SelectById(table, id) == IF id \in 1..Len(table) THEN <<table[id]>> ELSE <<>>

\* .set(fields): the named columns take the given values
SetFields(row, fields) ==
  [f \in DOMAIN row |-> IF f \in DOMAIN fields THEN fields[f] ELSE row[f]]

\* db.update(table).set(fields).where(eq(table.id, id)): no row, no change
UpdateById(table, id, fields) ==
  IF id \in 1..Len(table) THEN [table EXCEPT ![id] = SetFields(@, fields)] ELSE table

\* Time passes.
Tick ==
  /\ now < MaxTime
  /\ now' = now + 1
  /\ UNCHANGED <<datasets, analyses, columnInfo, files, pc, local, response, requests>>

\* A request arrives at the idle worker p.
Receive(p) ==
  /\ pc[p] = "idle"
  /\ requests < MaxRequests
  /\ requests' = requests + 1

\* ----------------------------------------------------------- uploadDataset
\* join('uploads', `${timestamp}_${input.file_name}`)
FilePath(timestamp, fileName) == <<"uploads", timestamp, fileName>>

\* The length of the buffer after trimming.
FileSizeTrimmed(fileBuffer) == Len(Trim(fileBuffer))

\* fileBuffer.length
FileSize(fileBuffer) == Len(fileBuffer)

\* Buffer.from(input.file_data, 'base64'): the model's file_data is the
\* decoded content, one character per byte.
NewDataset(id, input, filePath, uploadedAt) ==
  [id |-> id,
   name |-> input.name,
   description |-> input.description,
   file_path |-> filePath,
   file_size |-> FileSize(input.file_data),
   columns_count |-> UploadColumnsCount(input.file_data),
   rows_count |-> UploadRowsCount(input.file_data),
   status |-> "uploading",
   sample_rows |-> Null,
   uploaded_at |-> uploadedAt,
   processed_at |-> Null]

\* The handler has one await, the insert: the file is written and the row
\* inserted without another request's store statement in between.
UploadDataset(p, input) ==
  /\ Receive(p)
  /\ LET filePath == FilePath(now, input.file_name)
         row == NewDataset(Len(datasets) + 1, input, filePath, now)
     IN  /\ files' = [q \in DOMAIN files \cup {filePath} |->
                        IF q = filePath THEN input.file_data ELSE files[q]]
         /\ datasets' = Append(datasets, row)
         /\ response' = Resolved(p, "upload", row.id, "", row)
  /\ UNCHANGED <<analyses, columnInfo, now, pc, local>>

\* ---------------------------------------------------------- processDataset
\* Processable with only the in-progress status refused.
ProcessableUnlessProcessing(dataset) == dataset.status # "processing"

\* dataset.status !== 'uploading' && dataset.status !== 'error' throws
Processable(dataset) == dataset.status = "uploading" \/ dataset.status = "error"

\* Lines 12-26: the select, then not found / not processable are thrown
\* inside the try, so both land in the catch block.
ProcessSelect(p, datasetId) ==
  /\ Receive(p)
  /\ LET found == SelectById(datasets, datasetId)
         error == IF Len(found) = 0 THEN ErrDatasetNotFound
                  ELSE IF ~Processable(found[1]) THEN ErrNotProcessable
                  ELSE ""
     IN  /\ local' = [local EXCEPT ![p] = [NoLocal EXCEPT !.op = "process",
                                                          !.id = datasetId,
                                                          !.dataset = found,
                                                          !.error = error]]
         /\ pc' = [pc EXCEPT ![p] = IF error = "" THEN "process_processing"
                                    ELSE "process_catch"]
  /\ response' = NoResponse
  /\ UNCHANGED <<datasets, analyses, columnInfo, files, now>>

\* fs.existsSync(path) ? the content : nothing
ReadFile(path) == IF path \in DOMAIN files THEN Some(files[path]) ELSE Null

\* Lines 29-125 with the outcome of the file branch given: status
\* 'processing' is written, then the file is profiled synchronously.
ProcessProfile(p, file) ==
  /\ pc[p] = "process_processing"
  /\ datasets' = UpdateById(datasets, local[p].id, [status |-> "processing"])
  /\ \E profile \in Profiles(file) :
       /\ local' = [local EXCEPT ![p].profile = profile]
       /\ pc' = [pc EXCEPT ![p] = IF Len(profile.columnInfos) > 0
                                  THEN "process_insert" ELSE "process_ready"]
  /\ response' = NoResponse
  /\ UNCHANGED <<analyses, columnInfo, files, now, requests>>

\* Lines 29-125: the file, when it exists, is read without error.
ProcessUpdateProcessing(p) ==
  ProcessProfile(p, ReadFile(local[p].dataset[1].file_path))

\* Lines 29-125 when fs.readFileSync throws: the catch of lines 122-125 logs
\* and the locals keep their initial values.
ProcessReadFails(p) ==
  /\ local[p].dataset # Null
  /\ local[p].dataset[1].file_path \in DOMAIN files
  /\ ProcessProfile(p, Null)

\* The stored file is deleted from the uploads directory by something other
\* than the handlers (nothing in the server removes a file).
RemoveFile(path) ==
  /\ path \in DOMAIN files
  /\ files' = [q \in DOMAIN files \ {path} |-> files[q]]
  /\ UNCHANGED <<datasets, analyses, columnInfo, now, pc, local, response, requests>>

\* The rows db.insert(columnInfoTable).values(...) adds: the serial ids go on
\* from the table's last id; no row of the table is removed.
InsertColumnInfos(table, datasetId, columnInfos) ==
  table \o [i \in 1..Len(columnInfos) |->
              [id |-> Len(table) + i,
               dataset_id |-> datasetId,
               column_name |-> columnInfos[i].column_name,
               data_type |-> columnInfos[i].data_type,
               null_count |-> columnInfos[i].null_count,
               unique_count |-> columnInfos[i].unique_count,
               sample_values |-> columnInfos[i].sample_values,
               is_potential_target |-> columnInfos[i].is_potential_target,
               is_potential_treatment |-> columnInfos[i].is_potential_treatment]]

\* Lines 128-135
ProcessInsertColumns(p) ==
  /\ pc[p] = "process_insert"
  /\ columnInfo' = InsertColumnInfos(columnInfo, local[p].id, local[p].profile.columnInfos)
  /\ pc' = [pc EXCEPT ![p] = "process_ready"]
  /\ response' = NoResponse
  /\ UNCHANGED <<datasets, analyses, files, now, local, requests>>

\* ReadyFields with the counts of the profile, whatever they are.
ReadyFieldsNoFallback(dataset, profile, processedAt) ==
  [columns_count |-> profile.columnsCount,
   rows_count |-> profile.rowsCount,
   sample_rows |-> profile.sampleRows,
   status |-> "ready",
   processed_at |-> Some(processedAt)]

\* The .set({...}) of lines 139-145; dataset is the row read by the select.
ReadyFields(dataset, profile, processedAt) ==
  [columns_count |-> IF profile.columnsCount # 0 THEN profile.columnsCount
                     ELSE dataset.columns_count,
   rows_count |-> IF profile.rowsCount # 0 THEN profile.rowsCount
                  ELSE dataset.rows_count,
   sample_rows |-> profile.sampleRows,
   status |-> "ready",
   processed_at |-> Some(processedAt)]

\* Lines 138-150
ProcessUpdateReady(p) ==
  /\ pc[p] = "process_ready"
  /\ datasets' = UpdateById(datasets, local[p].id,
                            ReadyFields(local[p].dataset[1], local[p].profile, now))
  /\ response' = Resolved(p, "process", local[p].id, StatusRead(local[p].dataset),
                          datasets'[local[p].id])
  /\ pc' = [pc EXCEPT ![p] = "idle"]
  /\ local' = [local EXCEPT ![p] = NoLocal]
  /\ UNCHANGED <<analyses, columnInfo, files, now, requests>>

\* A catch block that puts the status back to 'uploading'.
ErrorFieldsReverting == [status |-> "uploading"]

\* The .set({...}) of line 155
ErrorFields == [status |-> "error"]

\* Lines 151-164: whatever was thrown, status 'error' is written to the row
\* with the requested id (no row, no change) and the error is rethrown.
ProcessCatch(p) ==
  /\ pc[p] = "process_catch"
  /\ datasets' = UpdateById(datasets, local[p].id, ErrorFields)
  /\ response' = Rejected(p, "process", local[p].id, StatusRead(local[p].dataset),
                          local[p].error)
  /\ pc' = [pc EXCEPT ![p] = "idle"]
  /\ local' = [local EXCEPT ![p] = NoLocal]
  /\ UNCHANGED <<analyses, columnInfo, files, now, requests>>

\* ---------------------------------------------------------- createAnalysis
\* Lines 10-17: the dataset must exist; the throw is rethrown as it is.
CreateSelect(p, input) ==
  /\ Receive(p)
  /\ LET found == SelectById(datasets, input.dataset_id)
     IN  IF Len(found) = 0
         THEN /\ response' = Rejected(p, "create", input.dataset_id, "", ErrDatasetNotFound)
              /\ UNCHANGED <<pc, local>>
         ELSE /\ pc' = [pc EXCEPT ![p] = "create_insert"]
              /\ local' = [local EXCEPT ![p] = [NoLocal EXCEPT !.op = "create",
                                                               !.id = input.dataset_id,
                                                               !.dataset = found,
                                                               !.input = Some(input)]]
              /\ response' = NoResponse
  /\ UNCHANGED <<datasets, analyses, columnInfo, files, now>>

\* A variant of the inserted row that is stored as running at once; the
\* handler does not use it.
NewAnalysisRunning(id, input, createdAt) ==
  [id |-> id,
   dataset_id |-> input.dataset_id,
   name |-> input.name,
   target_variable |-> input.target_variable,
   treatment_variables |-> input.treatment_variables,
   control_variables |-> input.control_variables,
   method |-> input.method,
   status |-> "running",
   results |-> Null,
   simple_explanation |-> Null,
   created_at |-> createdAt,
   completed_at |-> Null]

\* The inserted row: status, results, simple_explanation, created_at and
\* completed_at take the column defaults of analysesTable.
NewAnalysis(id, input, createdAt) ==
  [id |-> id,
   dataset_id |-> input.dataset_id,
   name |-> input.name,
   target_variable |-> input.target_variable,
   treatment_variables |-> input.treatment_variables,
   control_variables |-> input.control_variables,
   method |-> input.method,
   status |-> "pending",
   results |-> Null,
   simple_explanation |-> Null,
   created_at |-> createdAt,
   completed_at |-> Null]

\* Lines 20-32
CreateInsert(p) ==
  /\ pc[p] = "create_insert"
  /\ LET row == NewAnalysis(Len(analyses) + 1, local[p].input[1], now)
     IN  /\ analyses' = Append(analyses, row)
         /\ response' = Resolved(p, "create", local[p].id,
                                 StatusRead(local[p].dataset), row)
  /\ pc' = [pc EXCEPT ![p] = "idle"]
  /\ local' = [local EXCEPT ![p] = NoLocal]
  /\ UNCHANGED <<datasets, columnInfo, files, now, requests>>

\* ------------------------------------------------------- runCausalAnalysis
\* RunDecision without the completed short-circuit of lines 22-24.
RunDecisionNoCompletedCheck(analysisResults) ==
  IF Len(analysisResults) = 0 THEN "notfound"
  ELSE IF analysisResults[1].status = "running" THEN "conflict"
  ELSE "continue"

\* RunDecision without the running check of lines 26-28.
RunDecisionNoRunningCheck(analysisResults) ==
  IF Len(analysisResults) = 0 THEN "notfound"
  ELSE IF analysisResults[1].status = "completed" THEN "return"
  ELSE "continue"

\* RunDecision with a failed analysis returned as it is, like a completed one.
RunDecisionFailedTerminal(analysisResults) ==
  IF Len(analysisResults) = 0 THEN "notfound"
  ELSE IF analysisResults[1].status \in {"completed", "failed"} THEN "return"
  ELSE IF analysisResults[1].status = "running" THEN "conflict"
  ELSE "continue"

\* Lines 15-28: what the handler does with the row it has just read.
RunDecision(analysisResults) ==
  IF Len(analysisResults) = 0 THEN "notfound"
  ELSE IF analysisResults[1].status = "completed" THEN "return"
  ELSE IF analysisResults[1].status = "running" THEN "conflict"
  ELSE "continue"

\* Lines 10-28
RunSelect(p, analysisId) ==
  /\ Receive(p)
  /\ LET found == SelectById(analyses, analysisId)
         decision == RunDecision(found)
         error == CASE decision = "notfound" -> ErrAnalysisNotFound
                    [] decision = "conflict" -> ErrAlreadyRunning
                    [] OTHER -> ""
     IN  IF decision = "return"
         THEN /\ response' = Resolved(p, "run", analysisId, StatusRead(found), found[1])
              /\ UNCHANGED <<pc, local>>
         ELSE /\ pc' = [pc EXCEPT ![p] = IF decision = "continue" THEN "run_dataset"
                                         ELSE "run_catch"]
              /\ local' = [local EXCEPT ![p] = [NoLocal EXCEPT !.op = "run",
                                                               !.id = analysisId,
                                                               !.analysis = found,
                                                               !.error = error]]
              /\ response' = NoResponse
  /\ UNCHANGED <<datasets, analyses, columnInfo, files, now>>

\* DatasetReady without the status test of line 36.
DatasetReadyIfFound(datasetResults) == Len(datasetResults) # 0

\* datasetResults.length === 0 || datasetResults[0].status !== 'ready' throws
DatasetReady(datasetResults) ==
  ~(Len(datasetResults) = 0 \/ datasetResults[1].status # "ready")

\* Lines 31-38
RunSelectDataset(p) ==
  /\ pc[p] = "run_dataset"
  /\ LET datasetResults == SelectById(datasets, local[p].analysis[1].dataset_id)
     IN  IF DatasetReady(datasetResults)
         THEN /\ pc' = [pc EXCEPT ![p] = "run_running"]
              /\ local' = [local EXCEPT ![p].dataset = datasetResults]
         ELSE /\ pc' = [pc EXCEPT ![p] = "run_catch"]
              /\ local' = [local EXCEPT ![p].dataset = datasetResults,
                                        ![p].error = ErrDatasetNotReady]
  /\ response' = NoResponse
  /\ UNCHANGED <<datasets, analyses, columnInfo, files, now, requests>>

\* Lines 41-44
RunUpdateRunning(p) ==
  /\ pc[p] = "run_running"
  /\ analyses' = UpdateById(analyses, local[p].id, [status |-> "running"])
  /\ pc' = [pc EXCEPT ![p] = "run_completed"]
  /\ response' = NoResponse
  /\ UNCHANGED <<datasets, columnInfo, files, now, local, requests>>

\* Lines 48-58; 0.15, 0.08, 0.22 are in hundredths, 0.003 and 0.035 in
\* thousandths.
MockResults(analysis) ==
  [treatment_effect |-> 15,
   confidence_interval |-> <<8, 22>>,
   p_value |-> 3,
   standard_error |-> 35,
   method_details |-> [model_type |-> analysis.method,
                       n_observations |-> 1000,
                       convergence |-> TRUE]]

\* Array.prototype.join, as the sequence of its pieces
RECURSIVE Join(_, _)
Join(s, sep) ==
  IF Len(s) = 0 THEN <<>>
  ELSE IF Len(s) = 1 THEN s
  ELSE <<Head(s), sep>> \o Join(Tail(s), sep)

\* Line 60: the template, as the sequence of its pieces
SimpleExplanation(analysis) ==
  <<"The analysis found that ">>
  \o Join(analysis.treatment_variables, " and ")
  \o <<" has a positive causal effect of approximately 15% on ",
       analysis.target_variable,
       ". This result is statistically significant (p < 0.01) with a 95% confidence interval of [8%, 22%].">>

\* CompletedFields without simple_explanation.
CompletedFieldsNoExplanation(analysis, completedAt) ==
  [status |-> "completed",
   results |-> Some(MockResults(analysis)),
   completed_at |-> Some(completedAt)]

\* The .set({...}) of lines 64-69; analysis is the row read by the select.
CompletedFields(analysis, completedAt) ==
  [status |-> "completed",
   results |-> Some(MockResults(analysis)),
   simple_explanation |-> Some(SimpleExplanation(analysis)),
   completed_at |-> Some(completedAt)]

\* Lines 63-74
RunUpdateCompleted(p) ==
  /\ pc[p] = "run_completed"
  /\ analyses' = UpdateById(analyses, local[p].id,
                            CompletedFields(local[p].analysis[1], now))
  /\ response' = Resolved(p, "run", local[p].id, StatusRead(local[p].analysis),
                          analyses'[local[p].id])
  /\ pc' = [pc EXCEPT ![p] = "idle"]
  /\ local' = [local EXCEPT ![p] = NoLocal]
  /\ UNCHANGED <<datasets, columnInfo, files, now, requests>>

\* The .set({...}) of line 78
\* A catch block that leaves the status as it is after a started run.
FailedFieldsRunning == [status |-> "running"]

FailedFields == [status |-> "failed"]

\* Lines 75-84: whatever was thrown, status 'failed' is written to the row
\* with the requested id (no row, no change) and the error is rethrown.
RunCatch(p) ==
  /\ pc[p] = "run_catch"
  /\ analyses' = UpdateById(analyses, local[p].id, FailedFields)
  /\ response' = Rejected(p, "run", local[p].id, StatusRead(local[p].analysis),
                          local[p].error)
  /\ pc' = [pc EXCEPT ![p] = "idle"]
  /\ local' = [local EXCEPT ![p] = NoLocal]
  /\ UNCHANGED <<datasets, columnInfo, files, now, requests>>

\* ----------------------------------------------------------- specification
\* The bound on the analyses table: rows stored and inserts in flight.
CreateRoom(max) ==
  Len(analyses) + Cardinality({q \in Procs : pc[q] = "create_insert"}) < max

Next ==
  \/ Tick
  \/ \E p \in Procs, input \in UploadInputs :
       Len(datasets) < MaxDatasets /\ UploadDataset(p, input)
  \/ \E p \in Procs, datasetId \in 1..MaxDatasets : ProcessSelect(p, datasetId)
  \/ \E p \in Procs : ProcessUpdateProcessing(p)
  \/ \E p \in Procs : ProcessInsertColumns(p)
  \/ \E p \in Procs : ProcessUpdateReady(p)
  \/ \E p \in Procs : ProcessCatch(p)
  \/ \E p \in Procs, input \in CreateInputs :
       CreateRoom(MaxAnalyses) /\ CreateSelect(p, input)
  \/ \E p \in Procs : CreateInsert(p)
  \/ \E p \in Procs, analysisId \in 1..MaxAnalyses : RunSelect(p, analysisId)
  \/ \E p \in Procs : RunSelectDataset(p)
  \/ \E p \in Procs : RunUpdateRunning(p)
  \/ \E p \in Procs : RunUpdateCompleted(p)
  \/ \E p \in Procs : RunCatch(p)

Spec == Init /\ [][Next]_vars

\* Requests served one at a time: a worker runs only while no other worker's
\* request is suspended at an await.
Free(p) == \A q \in Procs \ {p} : pc[q] = "idle"

SeqNext ==
  \/ Tick
  \/ \E p \in Procs, input \in UploadInputs :
       Free(p) /\ Len(datasets) < MaxDatasets /\ UploadDataset(p, input)
  \/ \E p \in Procs, datasetId \in 1..MaxDatasets : Free(p) /\ ProcessSelect(p, datasetId)
  \/ \E p \in Procs : Free(p) /\ ProcessUpdateProcessing(p)
  \/ \E p \in Procs : Free(p) /\ ProcessInsertColumns(p)
  \/ \E p \in Procs : Free(p) /\ ProcessUpdateReady(p)
  \/ \E p \in Procs : Free(p) /\ ProcessCatch(p)
  \/ \E p \in Procs, input \in CreateInputs :
       Free(p) /\ CreateRoom(MaxAnalyses) /\ CreateSelect(p, input)
  \/ \E p \in Procs : Free(p) /\ CreateInsert(p)
  \/ \E p \in Procs, analysisId \in 1..MaxAnalyses : Free(p) /\ RunSelect(p, analysisId)
  \/ \E p \in Procs : Free(p) /\ RunSelectDataset(p)
  \/ \E p \in Procs : Free(p) /\ RunUpdateRunning(p)
  \/ \E p \in Procs : Free(p) /\ RunUpdateCompleted(p)
  \/ \E p \in Procs : Free(p) /\ RunCatch(p)

SpecSeq == Init /\ [][SeqNext]_vars

\* ------------------------------------------- processDataset: store faults
\* An awaited store statement of processDataset rejects: the statement changes
\* nothing and its error, which names the failed query, is thrown at the await.
ErrSelectFailed == "Failed query: select from datasets"
ErrProcessingFailed == "Failed query: update datasets set status processing"
ErrInsertFailed == "Failed query: insert into column_info"
ErrReadyFailed == "Failed query: update datasets set status ready"

\* The handler of worker p, suspended at the await named at, is thrown the
\* error and runs on into the catch block of line 151.
ProcessThrows(p, at, error) ==
  /\ pc[p] = at
  /\ pc' = [pc EXCEPT ![p] = "process_catch"]
  /\ local' = [local EXCEPT ![p].error = error]
  /\ response' = NoResponse
  /\ UNCHANGED <<datasets, analyses, columnInfo, files, now, requests>>

\* Lines 12-15 reject.
ProcessSelectFails(p, datasetId) ==
  /\ Receive(p)
  /\ pc' = [pc EXCEPT ![p] = "process_catch"]
  /\ local' = [local EXCEPT ![p] = [NoLocal EXCEPT !.op = "process",
                                                   !.id = datasetId,
                                                   !.error = ErrSelectFailed]]
  /\ response' = NoResponse
  /\ UNCHANGED <<datasets, analyses, columnInfo, files, now>>

\* Lines 29-32 reject.
ProcessUpdateProcessingFails(p) ==
  ProcessThrows(p, "process_processing", ErrProcessingFailed)

\* Lines 129-134 reject.
ProcessInsertColumnsFails(p) == ProcessThrows(p, "process_insert", ErrInsertFailed)

\* Lines 138-148 reject.
ProcessUpdateReadyFails(p) == ProcessThrows(p, "process_ready", ErrReadyFailed)

\* Lines 153-163 when the update of line 154 rejects too: its error is logged
\* and dropped, and the error that entered the catch block is rethrown.
ProcessCatchFails(p) ==
  /\ pc[p] = "process_catch"
  /\ response' = Rejected(p, "process", local[p].id, StatusRead(local[p].dataset),
                          local[p].error)
  /\ pc' = [pc EXCEPT ![p] = "idle"]
  /\ local' = [local EXCEPT ![p] = NoLocal]
  /\ UNCHANGED <<datasets, analyses, columnInfo, files, now, requests>>

\* uploadDataset and processDataset with store faults in processDataset.
FaultNext ==
  \/ \E p \in Procs, input \in UploadInputs :
       Len(datasets) < MaxDatasets /\ UploadDataset(p, input)
  \/ \E p \in Procs, datasetId \in 1..MaxDatasets : ProcessSelect(p, datasetId)
  \/ \E p \in Procs : ProcessUpdateProcessing(p)
  \/ \E p \in Procs : ProcessInsertColumns(p)
  \/ \E p \in Procs : ProcessUpdateReady(p)
  \/ \E p \in Procs : ProcessCatch(p)
  \/ \E p \in Procs, datasetId \in 1..MaxDatasets : ProcessSelectFails(p, datasetId)
  \/ \E p \in Procs : ProcessUpdateProcessingFails(p)
  \/ \E p \in Procs : ProcessInsertColumnsFails(p)
  \/ \E p \in Procs : ProcessUpdateReadyFails(p)
  \/ \E p \in Procs : ProcessCatchFails(p)

SpecFault == Init /\ [][FaultNext]_vars

\* ------------------------------------- store faults in runCausalAnalysis
\* Each awaited statement of runCausalAnalysis may reject instead of taking
\* effect.
ErrRunSelectFailed == "Failed query: select from analyses"
ErrRunDatasetFailed == "Failed query: select from datasets where id"
ErrRunRunningFailed == "Failed query: update analyses set status running"
ErrRunCompletedFailed == "Failed query: update analyses set status completed"
ErrRunFailedFailed == "Failed query: update analyses set status failed"

\* The handler of worker p, suspended at the await named at, is thrown the
\* error and runs on into the catch block of line 75.
RunThrows(p, at, error) ==
  /\ pc[p] = at
  /\ pc' = [pc EXCEPT ![p] = "run_catch"]
  /\ local' = [local EXCEPT ![p].error = error]
  /\ response' = NoResponse
  /\ UNCHANGED <<datasets, analyses, columnInfo, files, now, requests>>

\* Lines 10-13 reject.
RunSelectFails(p, analysisId) ==
  /\ Receive(p)
  /\ pc' = [pc EXCEPT ![p] = "run_catch"]
  /\ local' = [local EXCEPT ![p] = [NoLocal EXCEPT !.op = "run",
                                                   !.id = analysisId,
                                                   !.error = ErrRunSelectFailed]]
  /\ response' = NoResponse
  /\ UNCHANGED <<datasets, analyses, columnInfo, files, now>>

\* Lines 31-34 reject.
RunSelectDatasetFails(p) == RunThrows(p, "run_dataset", ErrRunDatasetFailed)

\* Lines 41-44 reject.
RunUpdateRunningFails(p) == RunThrows(p, "run_running", ErrRunRunningFailed)

\* Lines 63-72 reject.
RunUpdateCompletedFails(p) == RunThrows(p, "run_completed", ErrRunCompletedFailed)

\* Lines 77-80 reject: the catch block has no handler of its own, so the
\* update's error leaves the function in place of the one that was caught.
RunCatchFails(p) ==
  /\ pc[p] = "run_catch"
  /\ response' = Rejected(p, "run", local[p].id, StatusRead(local[p].analysis),
                          ErrRunFailedFailed)
  /\ pc' = [pc EXCEPT ![p] = "idle"]
  /\ local' = [local EXCEPT ![p] = NoLocal]
  /\ UNCHANGED <<datasets, analyses, columnInfo, files, now, requests>>

\* A suspended runCausalAnalysis request of worker p goes on: the store has
\* answered its query, with rows or with an error.
RunContinues(p) ==
  \/ RunSelectDataset(p)
  \/ RunUpdateRunning(p)
  \/ RunUpdateCompleted(p)
  \/ RunCatch(p)
  \/ RunSelectDatasetFails(p)
  \/ RunUpdateRunningFails(p)
  \/ RunUpdateCompletedFails(p)
  \/ RunCatchFails(p)

\* One worker uploads, processes and creates; both run the analysis, with
\* store faults.
RunFaultNext ==
  \/ \E input \in UploadInputs :
       Len(datasets) < MaxDatasets /\ UploadDataset(Server, input)
  \/ \E datasetId \in 1..MaxDatasets : ProcessSelect(Server, datasetId)
  \/ ProcessUpdateProcessing(Server)
  \/ ProcessInsertColumns(Server)
  \/ ProcessUpdateReady(Server)
  \/ ProcessCatch(Server)
  \/ \E input \in CreateInputs :
       CreateRoom(MaxAnalyses) /\ CreateSelect(Server, input)
  \/ CreateInsert(Server)
  \/ \E p \in Procs, analysisId \in 1..MaxAnalyses : RunSelect(p, analysisId)
  \/ \E p \in Procs : RunSelectDataset(p)
  \/ \E p \in Procs : RunUpdateRunning(p)
  \/ \E p \in Procs : RunUpdateCompleted(p)
  \/ \E p \in Procs : RunCatch(p)
  \/ \E p \in Procs, analysisId \in 1..MaxAnalyses : RunSelectFails(p, analysisId)
  \/ \E p \in Procs : RunSelectDatasetFails(p)
  \/ \E p \in Procs : RunUpdateRunningFails(p)
  \/ \E p \in Procs : RunUpdateCompletedFails(p)
  \/ \E p \in Procs : RunCatchFails(p)

\* The event loop resumes a suspended handler once its query has settled, and
\* the store settles every query.
SpecRunLive ==
  /\ Init
  /\ [][RunFaultNext]_vars
  /\ \A p \in Procs : WF_vars(RunContinues(p))

\* ------------------------------------------------- one dataset, many files
\* The files uploaded here: every one-column file of a header line and up to
\* MaxRows data lines with cells from Cells, and the files of OtherFiles.
MaxRows == 3

Cells == { <<>>, <<"1">>, <<"7">>, <<"x">>, <<"N", "o">> }

\* The lines of a file joined by line feeds.
RECURSIVE JoinLines(_)
JoinLines(lines) ==
  IF Len(lines) = 0 THEN <<>>
  ELSE IF Len(lines) = 1 THEN lines[1]
  ELSE lines[1] \o <<"\n">> \o JoinLines(Tail(lines))

ColumnFiles ==
  UNION { { JoinLines(<<<<"h">>>> \o rows) : rows \in [1..n -> Cells] }
          : n \in 0..MaxRows }

OtherFiles ==
  { <<>>,
    <<" ", "\n">>,
    <<"a", ",", "b">>,
    <<"a", ",", "b", "\n", "1", ",", "x">>,
    <<"\"", "a", "\"", ",", " ", "b", "\n", " ", "\"", "1", "\"", ",", "x", " ", "\n">>,
    <<"a", ",", "b", "\n", "1", "\n", "2", ",", "x", ",", "y">>,
    <<"a", ",", "b", "\n", "x", ",", "\n", "x", ",">>,
    JoinLines(<< <<"h">>, <<"1">>, <<"2">>, <<"3">>, <<"4">>, <<"5">>, <<"x">> >>),
    JoinLines(<< <<"h">>, <<"x">>, <<"x">>, <<"y">>, <<"z">>, <<"w">>, <<"v">>, <<"u">> >>) }

ProfiledFiles == ColumnFiles \cup OtherFiles

ProfileInputs ==
  { [name |-> "d", description |-> Null, file_data |-> c, file_name |-> f]
      : c \in ProfiledFiles, f \in FileNames }

\* One dataset is uploaded and then processed, one request at a time by the
\* worker Server; the stored file may be removed or turn out unreadable.

FilesNext ==
  \/ \E input \in ProfileInputs : datasets = <<>> /\ UploadDataset(Server, input)
  \/ \E datasetId \in 1..MaxDatasets : ProcessSelect(Server, datasetId)
  \/ ProcessUpdateProcessing(Server)
  \/ ProcessReadFails(Server)
  \/ ProcessInsertColumns(Server)
  \/ ProcessUpdateReady(Server)
  \/ ProcessCatch(Server)
  \/ \E path \in DOMAIN files : RemoveFile(path)

SpecFiles == Init /\ [][FilesNext]_vars

\* ------------------------------------------------ the uploadDataset endpoint
MaxUploads == 2

\* The rejection of a request by the input schema, and the error thrown by
\* mkdirSync or writeFileSync.
ErrUploadValidation == "name: String must contain at least 1 character(s)"
ErrWriteFailed == "write to uploads failed"

\* The input schema with any name accepted.
ValidUploadInputAnyName(input) == TRUE

\* uploadDatasetInputSchema, over inputs of the right types: name is
\* z.string().min(1).
ValidUploadInput(input) == input.name # ""

EndpointInputs ==
  { [name |-> n, description |-> Null, file_data |-> c, file_name |-> f]
      : n \in {"d", ""},
        c \in FileContents \cup {<<>>},
        f \in FileNames \cup {"g.csv"} }

\* publicProcedure.input(uploadDatasetInputSchema).mutation(...): the handler
\* runs only on an input the schema accepts.
UploadEndpoint(p, input) ==
  IF ValidUploadInput(input)
  THEN UploadDataset(p, input)
  ELSE /\ Receive(p)
       /\ response' = Rejected(p, "upload", 0, "", ErrUploadValidation)
       /\ UNCHANGED <<datasets, analyses, columnInfo, files, now, pc, local>>

\* Lines 20-25 throw: nothing was written, or the file was created (an
\* existing one truncated) before the write failed.  The catch rethrows.
UploadWriteFails(p, input) ==
  /\ Receive(p)
  /\ ValidUploadInput(input)
  /\ LET filePath == FilePath(now, input.file_name)
     IN  \/ files' = files
         \/ files' = [q \in DOMAIN files \cup {filePath} |->
                        IF q = filePath THEN <<>> ELSE files[q]]
  /\ response' = Rejected(p, "upload", 0, "", ErrWriteFailed)
  /\ UNCHANGED <<datasets, analyses, columnInfo, now, pc, local>>

UploadsNext ==
  \/ Tick
  \/ \E p \in Procs, input \in EndpointInputs :
       Len(datasets) < MaxUploads /\ UploadEndpoint(p, input)
  \/ \E p \in Procs, input \in EndpointInputs : UploadWriteFails(p, input)

SpecUploads == Init /\ [][UploadsNext]_vars

\* ------------------------------------------------ the createAnalysis endpoint
MaxCreated == 2

\* The rejection of a request by createAnalysisInputSchema.
ErrCreateValidation == "createAnalysis input failed validation"

\* The input schema with any name accepted.
ValidCreateInputAnyName(input) == Len(input.treatment_variables) >= 1

\* createAnalysisInputSchema, over inputs of the right types: name is
\* z.string().min(1), treatment_variables z.array(z.string()).min(1),
\* control_variables z.array(z.string()) and method one of the four names.
ValidCreateInput(input) ==
  /\ input.name # ""
  /\ Len(input.treatment_variables) >= 1
  /\ input.method \in {"doubleml", "causalml", "econml", "pywhy"}

CreateEndpointInputs ==
  { [dataset_id |-> d, name |-> n, target_variable |-> "y",
     treatment_variables |-> t, control_variables |-> c, method |-> "doubleml"]
      : d \in 1..MaxDatasets,
        n \in {"n", ""},
        t \in {<<"t1">>, <<>>},
        c \in {<<"c1">>, <<>>} }

\* publicProcedure.input(createAnalysisInputSchema).mutation(...): the
\* handler runs only on an input the schema accepts.
CreateEndpoint(p, input) ==
  IF ValidCreateInput(input)
  THEN CreateSelect(p, input)
  ELSE /\ Receive(p)
       /\ response' = Rejected(p, "create", input.dataset_id, "", ErrCreateValidation)
       /\ UNCHANGED <<datasets, analyses, columnInfo, files, now, pc, local>>

CreateNext ==
  \/ Tick
  \/ \E p \in Procs, input \in UploadInputs :
       Len(datasets) < MaxDatasets /\ UploadDataset(p, input)
  \/ \E p \in Procs, input \in CreateEndpointInputs :
       CreateRoom(MaxCreated) /\ CreateEndpoint(p, input)
  \/ \E p \in Procs : CreateInsert(p)

SpecCreate == Init /\ [][CreateNext]_vars

\* ------------------------------------------------- getDatasets, getAnalyses
\* The default page size of both list handlers.
DefaultLimit == 50

\* input?.field of an optional input.
Optional(input, field) == IF input = Null THEN Null ELSE input[1][field]

\* v || d: the default replaces an absent value and 0.
OrElse(v, d) == IF v = Null \/ v[1] = 0 THEN d ELSE v[1]

\* v ?? d: the default replaces an absent value only.
Coalesce(v, d) == IF v = Null THEN d ELSE v[1]

\* The row orders a select without ORDER BY may return: SQL leaves the order
\* of its result unspecified.
Unordered(rows) ==
  { [i \in 1..Len(rows) |-> rows[f[i]]] :
      f \in { g \in [1..Len(rows) -> 1..Len(rows)] :
                \A i, j \in 1..Len(rows) : i # j => g[i] # g[j] } }

\* The ascending order, oldest first; the handler does not use it.
OrderedByUploadedAtAsc(rows) ==
  { s \in Unordered(rows) :
      \A i \in 1..(Len(s) - 1) : s[i].uploaded_at <= s[i + 1].uploaded_at }

\* .orderBy(desc(datasetsTable.uploaded_at)): rows of equal uploaded_at come
\* in an unspecified relative order.
OrderedByUploadedAtDesc(rows) ==
  { s \in Unordered(rows) :
      \A i \in 1..(Len(s) - 1) : s[i].uploaded_at >= s[i + 1].uploaded_at }

\* .limit(limit).offset(offset) of a result
LimitOffset(rows, limit, offset) ==
  IF offset >= Len(rows)
  THEN <<>>
  ELSE SubSeq(rows, offset + 1, Min(Len(rows), offset + limit))

\* .where(eq(analysesTable.dataset_id, id)), applied when a dataset_id is given
WhereDatasetId(rows, datasetId) ==
  IF datasetId = Null
  THEN rows
  ELSE LET Matches(r) == r.dataset_id = datasetId[1]
       IN  SelectSeq(rows, Matches)

\* listDatasetsInputSchema.optional(): limit a positive integer, offset a
\* non-negative one, each optional.
ListDatasetsInputs ==
  {Null} \cup
  { Some([limit |-> l, offset |-> o])
      : l \in {Null, Some(1), Some(2)},
        o \in {Null, Some(0), Some(1), Some(2)} }

\* listAnalysesInputSchema.optional()
ListAnalysesInputs ==
  {Null} \cup
  { Some([dataset_id |-> d, limit |-> l, offset |-> o])
      : d \in {Null} \cup {Some(i) : i \in 1..(MaxUploads + 1)},
        l \in {Null, Some(1), Some(2)},
        o \in {Null, Some(1)} }

\* getDatasets, lines 10-22: one select, its rows are returned.
GetDatasets(p, input) ==
  /\ Receive(p)
  /\ LET limit == OrElse(Optional(input, "limit"), DefaultLimit)
         offset == OrElse(Optional(input, "offset"), 0)
     IN  \E rows \in OrderedByUploadedAtDesc(datasets) :
           response' = Resolved(p, "getDatasets", 0, "",
                                LimitOffset(rows, limit, offset))
  /\ UNCHANGED <<datasets, analyses, columnInfo, files, now, pc, local>>

\* getAnalyses, lines 10-33: one select, filtered when dataset_id is given,
\* without ORDER BY; the map of lines 28-33 copies each row.
GetAnalyses(p, input) ==
  /\ Receive(p)
  /\ LET limit == Coalesce(Optional(input, "limit"), DefaultLimit)
         offset == Coalesce(Optional(input, "offset"), 0)
         matching == WhereDatasetId(analyses, Optional(input, "dataset_id"))
     IN  \E rows \in Unordered(matching) :
           response' = Resolved(p, "getAnalyses", 0, "",
                                LimitOffset(rows, limit, offset))
  /\ UNCHANGED <<datasets, analyses, columnInfo, files, now, pc, local>>

\* createAnalysis requests for any of the uploaded datasets
ListedCreateInputs ==
  { [dataset_id |-> d, name |-> "n", target_variable |-> "y",
     treatment_variables |-> <<"t1">>, control_variables |-> <<>>,
     method |-> "doubleml"]
      : d \in 1..MaxUploads }

QueriesNext ==
  \/ Tick
  \/ \E input \in UploadInputs :
       Len(datasets) < MaxUploads /\ UploadDataset(Server, input)
  \/ \E input \in ListedCreateInputs :
       CreateRoom(MaxCreated) /\ CreateSelect(Server, input)
  \/ CreateInsert(Server)
  \/ \E input \in ListDatasetsInputs : GetDatasets(Server, input)
  \/ \E input \in ListAnalysesInputs : GetAnalyses(Server, input)

SpecQueries == Init /\ [][QueriesNext]_vars

\* ----------------------------------------------------------------- claims
\* The step receives a runCausalAnalysis request for analysis a at worker p:
\* the request is suspended at its next await or answered in the same step.
RunStarts(p, a) ==
  /\ requests' # requests
  /\ pc[p] = "idle"
  /\ \/ pc'[p] # "idle" /\ local'[p].op = "run" /\ local'[p].id = a
     \/ response'.proc = p /\ response'.op = "run" /\ response'.id = a

\* The step receives a processDataset request for dataset id d at worker p.
ProcessStarts(p, d) ==
  /\ requests' # requests
  /\ pc[p] = "idle"
  /\ pc'[p] # "idle" /\ local'[p].op = "process" /\ local'[p].id = d

\* The step is one of worker p's request suspended at the await named at.
StepsFrom(p, at) == pc[p] = at /\ pc'[p] # pc[p]

\* C1: a runCausalAnalysis request that read its analysis as pending and the
\* analysis's dataset as ready resolves with the analysis completed, results,
\* completed_at and simple_explanation set, the explanation naming every
\* treatment variable and the target variable; the stored row equals the
\* returned record when the request returns.
C1_RunPendingCompletes ==
  [][\A p \in Procs :
       ( /\ pc[p] \in {"run_dataset", "run_running", "run_completed", "run_catch"}
         /\ pc'[p] = "idle"
         /\ local[p].analysis # Null
         /\ local[p].analysis[1].status = "pending"
         /\ local[p].dataset # Null
         /\ local[p].dataset[1].status = "ready" )
       => /\ response'.proc = p /\ response'.op = "run"
          /\ response'.id = local[p].id
          /\ response'.status = "ok"
          /\ LET r == response'.value[1]
             IN  /\ r.status = "completed"
                 /\ r.results # Null
                 /\ r.completed_at # Null
                 /\ r.simple_explanation # Null
                 /\ \A v \in Range(r.treatment_variables) \cup {r.target_variable} :
                      v \in Range(r.simple_explanation[1])
                 /\ analyses'[local[p].id] = r
    ]_vars

C1_Witness ==
  /\ response.op = "run" /\ response.read = "pending"
  /\ response.status = "ok"
  /\ response.value[1].status = "completed"
  /\ Len(response.value[1].treatment_variables) = 2
  /\ analyses[response.id] = response.value[1]

\* C2: a runCausalAnalysis request on an analysis stored as completed writes
\* nothing and resolves at once with the stored row, every time it is sent.
C2_RunCompletedNoWrite ==
  [][\A p \in Procs : \A a \in 1..Len(analyses) :
       ( RunStarts(p, a) /\ analyses[a].status = "completed" )
       => /\ analyses' = analyses
          /\ pc'[p] = "idle"
          /\ response' = Resolved(p, "run", a, "completed", analyses[a])
    ]_vars

C2_Witness ==
  /\ response.op = "run" /\ response.read = "completed"
  /\ response.status = "ok"
  /\ response.value = Some(analyses[response.id])
  /\ analyses[response.id].completed_at # Null

\* C3: a runCausalAnalysis request on an analysis stored as running is
\* rejected with "already running"; it never reaches the computation, and its
\* only write leaves results, simple_explanation and completed_at as they were.
C3_RunRunningConflict ==
  [][\A p \in Procs :
       /\ \A a \in 1..Len(analyses) :
            ( RunStarts(p, a) /\ analyses[a].status = "running" )
            => /\ pc'[p] = "run_catch"
               /\ local'[p].error = ErrAlreadyRunning
               /\ analyses' = analyses
       /\ ( StepsFrom(p, "run_catch") /\ local[p].error = ErrAlreadyRunning )
          => /\ pc'[p] = "idle"
             /\ response' = Rejected(p, "run", local[p].id, "running", ErrAlreadyRunning)
             /\ Len(analyses') = Len(analyses)
             /\ \A a \in 1..Len(analyses) :
                  /\ analyses'[a].results = analyses[a].results
                  /\ analyses'[a].simple_explanation = analyses[a].simple_explanation
                  /\ analyses'[a].completed_at = analyses[a].completed_at
    ]_vars

C3_Witness ==
  /\ response.op = "run" /\ response.read = "running"
  /\ response.status = "error" /\ response.error = ErrAlreadyRunning

\* C4: a runCausalAnalysis request that read its analysis as pending and finds
\* the dataset missing or not ready is rejected with "not ready"; the request
\* writes nothing before that (never status running) and the analysis is stored
\* as failed when the request returns.
C4_RunDatasetNotReady ==
  [][\A p \in Procs :
       /\ \A a \in 1..Len(analyses) : RunStarts(p, a) => analyses' = analyses
       /\ ( /\ StepsFrom(p, "run_dataset")
            /\ local[p].analysis[1].status = "pending"
            /\ LET d == local[p].analysis[1].dataset_id
               IN  d \notin 1..Len(datasets) \/ datasets[d].status # "ready" )
          => /\ pc'[p] = "run_catch"
             /\ local'[p].error = ErrDatasetNotReady
             /\ analyses' = analyses
       /\ ( StepsFrom(p, "run_catch") /\ local[p].error = ErrDatasetNotReady )
          => /\ pc'[p] = "idle"
             /\ response' = Rejected(p, "run", local[p].id,
                                     StatusRead(local[p].analysis), ErrDatasetNotReady)
             /\ analyses'[local[p].id].status = "failed"
    ]_vars

C4_Witness ==
  /\ response.op = "run" /\ response.read = "pending"
  /\ response.status = "error" /\ response.error = ErrDatasetNotReady
  /\ analyses[response.id].status = "failed"
  /\ analyses[response.id].results = Null

\* C5: completed is terminal: once an analysis is stored as completed, no step
\* changes its status, its results or its completed_at.
C5_CompletedTerminal ==
  [][\A a \in 1..Len(analyses) :
       analyses[a].status = "completed"
       => /\ analyses'[a].status = "completed"
          /\ analyses'[a].results = analyses[a].results
          /\ analyses'[a].completed_at = analyses[a].completed_at
    ]_vars

\* C6: at most one runCausalAnalysis request on an analysis is between its
\* write of status running and its terminal write.
C6_NoDoubleExecution ==
  \A p, q \in Procs :
    ( /\ pc[p] = "run_completed" /\ pc[q] = "run_completed"
      /\ local[p].id = local[q].id )
    => p = q

\* C7: a processDataset request for an id with no row is rejected with "not
\* found", and one for a dataset stored as processing or ready with "not in a
\* processable state"; no step of such a request inserts a column_info row or
\* changes columns_count, rows_count, sample_rows or processed_at.
C7_ProcessRejected ==
  [][\A p \in Procs : \A d \in 1..MaxDatasets :
       /\ ( ProcessStarts(p, d) /\ d \notin 1..Len(datasets) )
          => /\ pc'[p] = "process_catch"
             /\ local'[p].error = ErrDatasetNotFound
             /\ datasets' = datasets /\ columnInfo' = columnInfo
       /\ ( /\ ProcessStarts(p, d)
            /\ d \in 1..Len(datasets)
            /\ datasets[d].status \in {"processing", "ready"} )
          => /\ pc'[p] = "process_catch"
             /\ local'[p].error = ErrNotProcessable
             /\ datasets' = datasets /\ columnInfo' = columnInfo
       /\ ( /\ StepsFrom(p, "process_catch")
            /\ local[p].error \in {ErrDatasetNotFound, ErrNotProcessable} )
          => /\ pc'[p] = "idle"
             /\ response' = Rejected(p, "process", local[p].id,
                                     StatusRead(local[p].dataset), local[p].error)
             /\ columnInfo' = columnInfo
             /\ Len(datasets') = Len(datasets)
             /\ \A e \in 1..Len(datasets) :
                  /\ datasets'[e].columns_count = datasets[e].columns_count
                  /\ datasets'[e].rows_count = datasets[e].rows_count
                  /\ datasets'[e].sample_rows = datasets[e].sample_rows
                  /\ datasets'[e].processed_at = datasets[e].processed_at
    ]_vars

C7_Witness ==
  /\ response.op = "process" /\ response.read = "ready"
  /\ response.status = "error" /\ response.error = ErrNotProcessable
  /\ datasets[response.id].processed_at # Null
  /\ datasets[response.id].sample_rows # Null

\* C8: a dataset that has been ready (processed_at is set only together with
\* status ready) is never moved to processing, and no column_info row is
\* inserted for a dataset stored as ready.
C8_ReadyNotReprocessed ==
  [][\A d \in 1..Len(datasets) :
       /\ datasets[d].processed_at # Null => datasets'[d].status # "processing"
       /\ datasets[d].status = "ready"
          => \A i \in (Len(columnInfo) + 1)..Len(columnInfo') :
               columnInfo'[i].dataset_id # d
    ]_vars

\* C9: every change of a dataset's stored status is uploading -> processing,
\* processing -> ready, error -> processing, or any status -> error.
AllowedDatasetTransitions ==
  { <<"uploading", "processing">>, <<"processing", "ready">>,
    <<"error", "processing">> }
  \cup { <<st, "error">> : st \in {"uploading", "processing", "ready"} }

C9_DatasetTransitions ==
  [][\A d \in 1..Len(datasets) :
       datasets'[d].status # datasets[d].status
       => <<datasets[d].status, datasets'[d].status>> \in AllowedDatasetTransitions
    ]_vars

\* The column_info rows of a dataset, without the serial id and dataset_id.
ColumnInfosOf(table, datasetId) ==
  LET rows == SelectSeq(table, LAMBDA r : r.dataset_id = datasetId)
  IN  [i \in 1..Len(rows) |->
         [column_name |-> rows[i].column_name,
          data_type |-> rows[i].data_type,
          null_count |-> rows[i].null_count,
          unique_count |-> rows[i].unique_count,
          sample_values |-> rows[i].sample_values,
          is_potential_target |-> rows[i].is_potential_target,
          is_potential_treatment |-> rows[i].is_potential_treatment]]

\* C10: when a processDataset request resolves, the column_info rows stored
\* for its dataset are exactly the rows the request computed, one per header
\* column.
C10_ColumnInfoReplaced ==
  [][\A p \in Procs :
       ( pc[p] = "process_ready" /\ pc'[p] = "idle" )
       => /\ ColumnInfosOf(columnInfo', local[p].id) = local[p].profile.columnInfos
          /\ Len(ColumnInfosOf(columnInfo', local[p].id)) = local[p].profile.columnsCount
    ]_vars

\* The step is the profiling step of worker p's processDataset request in
\* which the stored file was read.
ProfilesFile(p) ==
  /\ StepsFrom(p, "process_processing")
  /\ local[p].dataset[1].file_path \in DOMAIN files
  /\ local'[p].profile.columnsCount > 0

\* The file a processDataset request of worker p is about to read.
FileOf(p) == files[local[p].dataset[1].file_path]

\* A file has a header when its first line is not blank; its data rows are
\* the non-blank lines after the header, in file order.
HasHeader(content) == Trim(Split(content, "\n")[1]) # <<>>

RowLines(content) ==
  SelectSeq(Tail(Split(content, "\n")), LAMBDA line : Trim(line) # <<>>)

\* The first min(N, 5) data rows, split at the commas, each cell trimmed and
\* unquoted; no sample when there is no data row.
ExpectedSampleRows(content) ==
  LET rowLines == RowLines(content)
      n == Min(Len(rowLines), 5)
  IN  IF n = 0 THEN Null
      ELSE Some([i \in 1..n |->
                   LET cells == Split(rowLines[i], ",")
                   IN  [j \in 1..Len(cells) |-> Unquote(Trim(cells[j]))]])

\* C11: a processDataset request that reads a stored file with a header and N
\* data rows samples the first min(N, 5) data rows in file order, and resolves
\* with the dataset ready, processed_at set and that sample as sample_rows.
C11_ProcessSamplesRows ==
  [][\A p \in Procs :
       /\ ( ProfilesFile(p) /\ HasHeader(FileOf(p)) )
          => local'[p].profile.sampleRows = ExpectedSampleRows(FileOf(p))
       /\ ( StepsFrom(p, "process_ready") /\ local[p].profile.columnsCount > 0 )
          => /\ response'.proc = p /\ response'.status = "ok"
             /\ response'.value[1].status = "ready"
             /\ response'.value[1].processed_at # Null
             /\ response'.value[1].sample_rows = local[p].profile.sampleRows
             /\ response'.value[1].sample_rows # Null
                => Len(response'.value[1].sample_rows[1]) <= 5
    ]_vars

\* C12: a processDataset request whose stored file is missing or cannot be
\* read resolves with the dataset ready and processed_at set, inserts no
\* column_info row and leaves columns_count and rows_count as stored.
C12_UnreadableFileStillReady ==
  [][\A p \in Procs :
       /\ ( /\ StepsFrom(p, "process_processing")
            /\ local[p].dataset[1].file_path \notin DOMAIN files )
          => /\ pc'[p] = "process_ready"
             /\ local'[p].profile.columnsCount = 0
             /\ local'[p].profile.columnInfos = <<>>
             /\ columnInfo' = columnInfo
       /\ StepsFrom(p, "process_insert") => local[p].profile.columnsCount > 0
       /\ ( StepsFrom(p, "process_ready") /\ local[p].profile.columnsCount = 0 )
          => /\ response'.proc = p /\ response'.status = "ok"
             /\ response'.value[1] = datasets'[local[p].id]
             /\ response'.read \in {"uploading", "error"}
             /\ response'.value[1].status = "ready"
             /\ response'.value[1].processed_at # Null
             /\ response'.value[1].columns_count = datasets[local[p].id].columns_count
             /\ response'.value[1].rows_count = datasets[local[p].id].rows_count
             /\ columnInfo' = columnInfo
    ]_vars

C12_Witness ==
  /\ response.op = "process" /\ response.status = "ok"
  /\ response.read = "error"
  /\ response.value[1].file_path \notin DOMAIN files
  /\ response.value[1].status = "ready"
  /\ response.value[1].columns_count = 2
  /\ response.value[1].rows_count = 1
  /\ response.value[1].sample_rows = Null

\* The step ends a processDataset request of worker p in which a store
\* statement failed after the dataset had been marked processing.
FailsAfterProcessing(p) ==
  /\ StepsFrom(p, "process_catch")
  /\ local[p].error \in {ErrInsertFailed, ErrReadyFailed}

Sampled(p, i) == ColumnValues(ProcessLines(FileOf(p)), i)

\* C14: a column whose sampled values all parse as finite numbers is
\* classified numeric with is_potential_target set; in particular a column
\* whose sampled values are all 0 or 1.
C14_NumericClassified ==
  [][\A p \in Procs :
       ProfilesFile(p)
       => \A i \in 1..Len(local'[p].profile.columnInfos) :
            LET values == Sampled(p, i)
                info == local'[p].profile.columnInfos[i]
            IN  ( /\ Len(values) > 0
                  /\ \A k \in 1..Len(values) : ParsesFinite(values[k]) )
                => /\ info.data_type = "numeric"
                   /\ info.is_potential_target
    ]_vars

\* C15: in every stored column_info row, is_potential_target holds exactly
\* when data_type is numeric, and is_potential_treatment exactly when
\* data_type is boolean or categorical.
C15_RoleFlagsFollowType ==
  \A i \in 1..Len(columnInfo) :
    /\ columnInfo[i].is_potential_target <=> columnInfo[i].data_type = "numeric"
    /\ columnInfo[i].is_potential_treatment
         <=> columnInfo[i].data_type \in {"boolean", "categorical"}

\* C16: a column classified neither numeric nor boolean is categorical
\* exactly when its sampled values have at most 10 distinct values and fewer
\* distinct values than samples, and text otherwise; a column without a
\* non-blank sampled value is text with both role flags off.
C16_CategoricalOrText ==
  [][\A p \in Procs :
       ProfilesFile(p)
       => \A i \in 1..Len(local'[p].profile.columnInfos) :
            LET values == Sampled(p, i)
                distinct == Cardinality({values[k] : k \in 1..Len(values)})
                info == local'[p].profile.columnInfos[i]
            IN  /\ info.data_type \notin {"numeric", "boolean"}
                   => /\ info.data_type \in {"categorical", "text"}
                      /\ info.data_type = "categorical"
                           <=> (distinct <= 10 /\ distinct < Len(values))
                /\ Len(values) = 0
                   => /\ info.data_type = "text"
                      /\ ~info.is_potential_target
                      /\ ~info.is_potential_treatment
    ]_vars

C16_Witness ==
  \E i, j \in 1..Len(columnInfo) :
    /\ columnInfo[i].data_type = "categorical"
    /\ columnInfo[i].sample_values = Some(<< <<"x">>, <<"x">> >>)
    /\ columnInfo[i].is_potential_treatment
    /\ columnInfo[j].data_type = "text"
    /\ columnInfo[j].sample_values = Null

\* The step serves an uploadDataset request of worker p and resolves it.
UploadResolves(p) ==
  /\ requests' # requests
  /\ pc[p] = "idle"
  /\ response'.proc = p /\ response'.op = "upload" /\ response'.status = "ok"

\* C17: an uploadDataset request that resolves adds exactly one row to
\* datasets and returns it: status uploading, file_size the byte length of the
\* stored (decoded) file data, processed_at null.
C17_UploadInsertsOneRow ==
  [][\A p \in Procs :
       UploadResolves(p)
       => LET row == response'.value[1]
          IN  /\ Len(datasets') = Len(datasets) + 1
              /\ SubSeq(datasets', 1, Len(datasets)) = datasets
              /\ datasets'[Len(datasets')] = row
              /\ row.id = response'.id
              /\ row.status = "uploading"
              /\ row.file_path \in DOMAIN files'
              /\ row.file_size = Len(files'[row.file_path])
              /\ row.processed_at = Null
    ]_vars

C17_Witness ==
  /\ response.op = "upload" /\ response.status = "ok"
  /\ datasets = <<response.value[1]>>
  /\ response.value[1].status = "uploading"
  /\ response.value[1].file_path \in DOMAIN files
  /\ files[response.value[1].file_path] = <<" ", "\n">>
  /\ response.value[1].file_size = 2

\* The lines of a file that are not blank, by their positions.
NonBlankAt(content) ==
  {i \in 1..Len(Split(content, "\n")) : Trim(Split(content, "\n")[i]) # <<>>}

\* The header line is the first line that is not blank; its comma-separated
\* fields are one more than its commas.  No such line, no columns.
HeaderFields(content) ==
  IF NonBlankAt(content) = {} THEN 0
  ELSE LET h == CHOOSE i \in NonBlankAt(content) : \A j \in NonBlankAt(content) : i <= j
           header == Split(content, "\n")[h]
       IN  1 + Cardinality({k \in 1..Len(header) : header[k] = ","})

\* The non-blank lines after the header.
NonBlankRows(content) ==
  IF NonBlankAt(content) = {} THEN 0 ELSE Cardinality(NonBlankAt(content)) - 1

\* C18: an uploadDataset request stores as columns_count the number of
\* comma-separated fields of the header line and as rows_count the number of
\* non-blank lines after the header; an empty file gives 0, 0 and file_size 0.
C18_UploadCounts ==
  [][\A p \in Procs :
       UploadResolves(p)
       => LET row == response'.value[1]
              content == files'[row.file_path]
          IN  /\ row.columns_count = HeaderFields(content)
              /\ row.rows_count = NonBlankRows(content)
              /\ content = <<>>
                 => /\ row.columns_count = 0
                    /\ row.rows_count = 0
                    /\ row.file_size = 0
    ]_vars

C18_Witness ==
  /\ response.op = "upload" /\ response.status = "ok"
  /\ response.value[1].file_path \in DOMAIN files
  /\ files[response.value[1].file_path]
       = <<"a", ",", "b", "\n", "1", "\n", "2", ",", "x", ",", "y">>
  /\ response.value[1].columns_count = 2
  /\ response.value[1].rows_count = 2

\* C19: any two stored datasets have distinct file paths, so that no upload
\* writes over the stored file of another dataset.
C19_DistinctFilePaths ==
  \A d, e \in 1..Len(datasets) :
    d # e => datasets[d].file_path # datasets[e].file_path

\* C20: an upload whose name is empty is rejected at the endpoint by the
\* input schema, and an upload whose file write fails is rejected with the
\* write's error; a rejected upload inserts no dataset row.
C20_UploadRejected ==
  [][\A p \in Procs :
       /\ \A input \in EndpointInputs :
            ( UploadEndpoint(p, input) /\ input.name = "" )
            => /\ response' = Rejected(p, "upload", 0, "", ErrUploadValidation)
               /\ datasets' = datasets
               /\ files' = files
       /\ ( /\ requests' # requests /\ pc[p] = "idle"
            /\ response'.proc = p /\ response'.op = "upload"
            /\ response'.status = "error" )
          => /\ datasets' = datasets
             /\ response'.error \in {ErrUploadValidation, ErrWriteFailed}
    ]_vars

C20_Witness ==
  /\ response.op = "upload" /\ response.status = "error"
  /\ response.error = ErrWriteFailed
  /\ Len(datasets) = 1
  /\ \E path \in DOMAIN files : files[path] = <<>> /\ path # datasets[1].file_path

\* C21: a createAnalysis request whose dataset_id names no stored dataset is
\* rejected with the not-found error and inserts no analysis; one whose
\* dataset exists, whatever the dataset's status, goes on to insert exactly
\* one analysis with status pending and results, simple_explanation and
\* completed_at null, and resolves with that row.
C21_CreateAnalysis ==
  [][\A p \in Procs :
       /\ \A input \in CreateInputs :
            CreateSelect(p, input)
            => /\ analyses' = analyses
               /\ IF \E i \in 1..Len(datasets) : datasets[i].id = input.dataset_id
                  THEN pc'[p] = "create_insert" /\ response' = NoResponse
                  ELSE /\ pc'[p] = "idle"
                       /\ response' = Rejected(p, "create", input.dataset_id, "",
                                               ErrDatasetNotFound)
       /\ StepsFrom(p, "create_insert")
          => /\ pc'[p] = "idle"
             /\ Len(analyses') = Len(analyses) + 1
             /\ SubSeq(analyses', 1, Len(analyses)) = analyses
             /\ LET row == analyses'[Len(analyses')]
                IN  /\ row.dataset_id = local[p].id
                    /\ row.status = "pending"
                    /\ row.results = Null
                    /\ row.simple_explanation = Null
                    /\ row.completed_at = Null
                    /\ response'.proc = p /\ response'.op = "create"
                    /\ response'.status = "ok"
                    /\ response'.value = Some(row)
    ]_vars

C21_Witness ==
  /\ response.op = "create" /\ response.status = "ok"
  /\ response.read = "processing"
  /\ Len(analyses) = 1
  /\ analyses[1] = response.value[1]
  /\ analyses[1].status = "pending"

\* C22: every analysis stored through the createAnalysis endpoint has a
\* non-empty name and at least one treatment variable: a request with an
\* empty name or an empty treatment_variables list is rejected by the input
\* schema and inserts nothing, while an empty control_variables list does not
\* make the schema reject the request.
C22_CreateValidated ==
  [][/\ \A i \in 1..Len(analyses') :
          /\ analyses'[i].name # ""
          /\ Len(analyses'[i].treatment_variables) >= 1
     /\ \A p \in Procs : \A input \in CreateEndpointInputs :
          CreateEndpoint(p, input)
          => IF input.name = "" \/ input.treatment_variables = <<>>
             THEN /\ response' = Rejected(p, "create", input.dataset_id, "",
                                          ErrCreateValidation)
                  /\ analyses' = analyses
                  /\ pc' = pc
             ELSE /\ response'.error # ErrCreateValidation
                  /\ Len(datasets) >= input.dataset_id
                     => pc'[p] = "create_insert" /\ local'[p].input = Some(input)
    ]_vars

C22_Witness ==
  /\ response.op = "create" /\ response.status = "error"
  /\ response.error = ErrCreateValidation
  /\ Len(analyses) = 1
  /\ analyses[1].control_variables = <<>>
  /\ analyses[1].name # ""
  /\ analyses[1].treatment_variables # <<>>

\* C23: getDatasets resolves with a page of the datasets in descending order
\* of uploaded_at: the rows it returns are distinct stored rows, newest
\* first; offset rows (0 when none is given) that are at least as new come
\* before the page, every other row left out is at most as old as the page's
\* last row, and the page holds limit rows (50 when none is given) or as many
\* as remain after the offset; with no datasets the result is empty.  The
\* request writes nothing.  (Stated for every input: the step has these
\* properties or is no getDatasets step for that input.)
C23_GetDatasetsPage ==
  [][\A p \in Procs : \A input \in ListDatasetsInputs :
       ( /\ requests' # requests
         /\ response'.proc = p /\ response'.op = "getDatasets" )
       => \/ LET r == response'.value[1]
                 k == Len(r)
                 n == Len(datasets)
                 limit == IF input = Null \/ input[1].limit = Null
                          THEN 50 ELSE input[1].limit[1]
                 offset == IF input = Null \/ input[1].offset = Null
                           THEN 0 ELSE input[1].offset[1]
                 others == {i \in 1..n : \A j \in 1..k : r[j] # datasets[i]}
                 newer == {i \in others : datasets[i].uploaded_at > r[k].uploaded_at}
                 older == {i \in others : datasets[i].uploaded_at < r[1].uploaded_at}
             IN  /\ response'.status = "ok"
                 /\ datasets' = datasets
                 /\ k = Min(limit, Max(0, n - offset))
                 /\ n = 0 => r = <<>>
                 /\ \A j \in 1..k : \E i \in 1..n : r[j] = datasets[i]
                 /\ \A i, j \in 1..k :
                      i < j => r[i] # r[j] /\ r[i].uploaded_at >= r[j].uploaded_at
                 /\ k > 0
                    => /\ \A i \in newer : datasets[i].uploaded_at >= r[1].uploaded_at
                       /\ \A i \in older : datasets[i].uploaded_at <= r[k].uploaded_at
                       /\ Cardinality(newer) <= offset
                       /\ Cardinality(older) <= n - offset - k
          \/ ~GetDatasets(p, input)
    ]_vars

C23_Witness ==
  /\ response.op = "getDatasets" /\ response.status = "ok"
  /\ Len(datasets) = 2
  /\ datasets[1].uploaded_at < datasets[2].uploaded_at
  /\ response.value[1] = <<datasets[1]>>

\* C24: getAnalyses resolves with the analyses in insertion (id) order, only
\* those whose dataset_id equals the filter when one is given and all of them
\* otherwise, without the first offset rows (0 when none is given) and with
\* at most limit rows (50 when none is given); a filter that matches no
\* analysis gives the empty list, not an error.
C24_GetAnalysesPage ==
  [][\A p \in Procs : \A input \in ListAnalysesInputs :
       ( /\ requests' # requests
         /\ response'.proc = p /\ response'.op = "getAnalyses" )
       => \/ LET limit == IF input = Null \/ input[1].limit = Null
                          THEN 50 ELSE input[1].limit[1]
                 offset == IF input = Null \/ input[1].offset = Null
                           THEN 0 ELSE input[1].offset[1]
                 Wanted(r) == \/ input = Null
                              \/ input[1].dataset_id = Null
                              \/ r.dataset_id = input[1].dataset_id[1]
                 inIdOrder == SelectSeq(analyses, Wanted)
             IN  /\ response'.status = "ok"
                 /\ analyses' = analyses
                 /\ response'.value[1] =
                      [i \in 1..Min(limit, Max(0, Len(inIdOrder) - offset)) |->
                         inIdOrder[offset + i]]
          \/ ~GetAnalyses(p, input)
    ]_vars

\* C25: a runCausalAnalysis request that is rejected because it read its
\* analysis as running writes nothing: no step of the request, from its
\* select to its rejection, changes the analyses table, so the stored status
\* stays running until the run in flight writes its own terminal status.
C25_ConflictWritesNothing ==
  [][\A p \in Procs :
       ( \/ \E a \in 1..Len(analyses) :
               RunStarts(p, a) /\ analyses[a].status = "running"
         \/ /\ StepsFrom(p, "run_catch")
            /\ local[p].error = ErrAlreadyRunning )
       => analyses' = analyses
    ]_vars

\* C26: a processDataset request that read its file stores as rows_count the
\* number of non-blank lines after the header, so blank lines between the
\* data rows are not counted and the value is the one uploadDataset computes
\* for the same file.
C26_ProcessRowsCount ==
  [][\A p \in Procs :
       ( /\ StepsFrom(p, "process_ready")
         /\ local[p].profile.columnsCount > 0
         /\ local[p].dataset[1].file_path \in DOMAIN files )
       => /\ datasets'[local[p].id].rows_count = NonBlankRows(FileOf(p))
          /\ datasets'[local[p].id].rows_count = UploadRowsCount(FileOf(p))
    ]_vars

\* C27: a runCausalAnalysis request that read its analysis as failed goes on
\* like one that read it as pending: it reads the dataset, and when that is
\* ready it writes running and then completed with results,
\* simple_explanation and completed_at, and resolves with the completed row.
C27_FailedIsRetried ==
  [][\A p \in Procs :
       /\ \A a \in 1..Len(analyses) :
            ( RunStarts(p, a) /\ analyses[a].status = "failed" )
            => /\ pc'[p] = "run_dataset"
               /\ local'[p].analysis = Some(analyses[a])
               /\ analyses' = analyses
       /\ ( /\ pc[p] \in {"run_dataset", "run_running", "run_completed"}
            /\ pc'[p] # pc[p]
            /\ local[p].analysis[1].status = "failed"
            /\ local'[p].dataset # Null => local'[p].dataset[1].status = "ready"
            /\ local[p].dataset # Null => local[p].dataset[1].status = "ready" )
          => /\ pc[p] = "run_dataset" => pc'[p] = "run_running" /\ analyses' = analyses
             /\ pc[p] = "run_running"
                => /\ pc'[p] = "run_completed"
                   /\ analyses'[local[p].id].status = "running"
             /\ pc[p] = "run_completed"
                => /\ pc'[p] = "idle"
                   /\ response'.proc = p /\ response'.op = "run"
                   /\ response'.status = "ok"
                   /\ response'.value = Some(analyses'[local[p].id])
                   /\ analyses'[local[p].id].status = "completed"
                   /\ analyses'[local[p].id].results # Null
                   /\ analyses'[local[p].id].simple_explanation # Null
                   /\ analyses'[local[p].id].completed_at # Null
    ]_vars

C27_Witness ==
  /\ response.op = "run" /\ response.read = "failed"
  /\ response.status = "ok"
  /\ response.value[1].status = "completed"
  /\ response.value[1].results # Null
  /\ analyses[response.id] = response.value[1]

\* The awaits of runCausalAnalysis; worker p has a run of analysis a in flight.
RunLabels == {"run_dataset", "run_running", "run_completed", "run_catch"}

RunInFlight(p, a) == pc[p] \in RunLabels /\ local[p].id = a

\* The step is the return of worker p's run of analysis a.
RunReturns(p, a) ==
  /\ pc'[p] = "idle"
  /\ RunInFlight(p, a) \/ RunStarts(p, a)

C29_ResultsIffCompleted ==
  \A a \in 1..Len(analyses) :
    /\ analyses[a].status = "completed"
       => /\ analyses[a].results # Null
          /\ analyses[a].simple_explanation # Null
          /\ analyses[a].completed_at # Null
    /\ analyses[a].status # "completed"
       => /\ analyses[a].results = Null
          /\ analyses[a].simple_explanation = Null
          /\ analyses[a].completed_at = Null

\* C30: a processDataset request on an empty file that uploadDataset stored
\* with columns_count 0 and rows_count 0 inserts no column_info row and
\* leaves columns_count and rows_count at 0.
C30_EmptyFileNoColumns ==
  [][\A p \in Procs :
       ( /\ pc[p] \in {"process_processing", "process_insert", "process_ready"}
         /\ pc'[p] # pc[p]
         /\ local[p].dataset[1].file_path \in DOMAIN files
         /\ FileOf(p) = <<>>
         /\ local[p].dataset[1].columns_count = 0
         /\ local[p].dataset[1].rows_count = 0 )
       => /\ columnInfo' = columnInfo
          /\ pc[p] = "process_ready"
             => /\ datasets'[local[p].id].columns_count = 0
                /\ datasets'[local[p].id].rows_count = 0
    ]_vars

====
